---- MODULE Spec2Model ----
(***************************************************************************)
(* A model of the assistant-ui gateway of src/index.ts: an HTTP handler    *)
(* that authenticates an OpenAI-style chat-completion request, translates  *)
(* it into the backend's payload, forwards it, and translates the          *)
(* backend's SSE byte stream back into OpenAI chunks (streaming mode) or   *)
(* one chat.completion document (buffered mode).                           *)
(*                                                                         *)
(* src/index.ts holds two definitions of the server (lines 42-219 and      *)
(* lines 264-404).  The variable `server` says which one handles the       *)
(* request.                                                                *)
(*                                                                         *)
(* Text is a sequence of one-character strings.  Upstream bytes are the    *)
(* same one-character strings for ASCII, plus the two byte tokens "C3" and *)
(* "A9" (the UTF-8 encoding of U+00E9), so that the streaming TextDecoder  *)
(* has something to carry over a read boundary.                            *)
(***************************************************************************)
EXTENDS Integers, Sequences, FiniteSets, TLC

(***************************************************************************)
(* Bounds of the model.                                                    *)
(***************************************************************************)
\* upstream SSE lines in one response body
MaxLines == 2
\* a read returns 1..MaxRead bytes, or everything that is left
MaxRead == 2
\* messages in one chat request
MaxMessages == 2
\* with two requests in flight, the body of the second arrives in packets
\* of this many bytes
Packet == 17

(***************************************************************************)
(* JavaScript string operations used by the handlers.                      *)
(***************************************************************************)
Q == "\""
NL == "\n"
WhiteSpace == {" ", "\t", "\n", "\r"}

\* String.prototype.startsWith
StartsWith(s, p) ==
    /\ Len(s) >= Len(p)
    /\ SubSeq(s, 1, Len(p)) = p

\* String.prototype.slice(n), n >= 0
Slice(s, n) == SubSeq(s, n + 1, Len(s))

RECURSIVE TrimLeft(_)
TrimLeft(s) ==
    IF s # <<>> /\ Head(s) \in WhiteSpace THEN TrimLeft(Tail(s)) ELSE s

RECURSIVE TrimRight(_)
TrimRight(s) ==
    IF s # <<>> /\ s[Len(s)] \in WhiteSpace
    THEN TrimRight(SubSeq(s, 1, Len(s) - 1))
    ELSE s

\* String.prototype.trim
Trim(s) == TrimRight(TrimLeft(s))

\* String.prototype.split("\n"): the pieces between newlines, at least one
RECURSIVE Split(_)
Split(s) ==
    LET newlines == {i \in 1..Len(s) : s[i] = NL} IN
    IF newlines = {} THEN <<s>>
    ELSE LET first == CHOOSE i \in newlines : \A j \in newlines : i <= j IN
         <<SubSeq(s, 1, first - 1)>> \o Split(SubSeq(s, first + 1, Len(s)))

\* parts[lo] \o ... \o parts[hi]
RECURSIVE Concat(_, _, _)
Concat(parts, lo, hi) ==
    IF lo > hi THEN <<>>
    ELSE IF lo = hi THEN parts[lo]
    ELSE LET mid == (lo + hi) \div 2 IN
         Concat(parts, lo, mid) \o Concat(parts, mid + 1, hi)

(***************************************************************************)
(* new TextDecoder().decode(value, { stream: true }) on the byte subset    *)
(* ASCII + C3 + A9.  `pending` is the decoder's carried state: the lead    *)
(* byte of an unfinished two-byte sequence, or nothing.                    *)
(***************************************************************************)
LeadByte == "C3"
ContByte == "A9"
EAcute == "U+00E9"
Replacement == "U+FFFD"

\* what the decoder emits on reaching byte i of `all`: a lead byte is held
\* back; the byte after a lead byte completes it or shows it broken (U+FFFD)
DecodedAt(all, i) ==
    LET b == all[i]
        afterLead == i > 1 /\ all[i - 1] = LeadByte
    IN  IF b = ContByte THEN (IF afterLead THEN <<EAcute>> ELSE <<Replacement>>)
        ELSE (IF afterLead THEN <<Replacement>> ELSE <<>>)
                \o (IF b = LeadByte THEN <<>> ELSE <<b>>)

Decode(pending, bytes) ==
    LET all == pending \o bytes IN
    [text |-> Concat([i \in 1..Len(all) |-> DecodedAt(all, i)], 1, Len(all)),
     pending |-> IF all # <<>> /\ all[Len(all)] = LeadByte THEN <<LeadByte>> ELSE <<>>]

(***************************************************************************)
(* JSON.parse on the subset the upstream events use: a string, a number    *)
(* (digits), or a flat object whose member values are strings or numbers,  *)
(* with optional whitespace between tokens.  Any other text (arrays such   *)
(* as [DONE], nested values, escapes, literals) is reported as a           *)
(* SyntaxError here; in the handlers such a text produces no output        *)
(* whether it throws or parses to something without a `type`.              *)
(* A value is [t, v, m]: its type, its characters, its members.            *)
(***************************************************************************)
Digits == {"0", "1", "2", "3", "4", "5", "6", "7", "8", "9"}

Undefined == [t |-> "undefined", v |-> <<>>, m |-> <<>>]
StringValue(chars) == [t |-> "string", v |-> chars, m |-> <<>>]
NumberValue(chars) == [t |-> "number", v |-> chars, m |-> <<>>]
ObjectValue(members) == [t |-> "object", v |-> <<>>, m |-> members]

SyntaxError == [ok |-> FALSE, value |-> Undefined, next |-> 0]
Parsed(val, next) == [ok |-> TRUE, value |-> val, next |-> next]

RECURSIVE SkipWs(_, _)
SkipWs(s, i) ==
    IF i <= Len(s) /\ s[i] \in WhiteSpace THEN SkipWs(s, i + 1) ELSE i

\* the index of the quote closing a string whose content starts at i, 0 if none
RECURSIVE ClosingQuote(_, _)
ClosingQuote(s, i) ==
    IF i > Len(s) \/ s[i] \in {"\\", "\n", "\r", "\t"} THEN 0
    ELSE IF s[i] = Q THEN i
    ELSE ClosingQuote(s, i + 1)

RECURSIVE DigitsEnd(_, _)
DigitsEnd(s, i) ==
    IF i <= Len(s) /\ s[i] \in Digits THEN DigitsEnd(s, i + 1) ELSE i

\* a string or a number at i
ParseScalar(s, i) ==
    IF i > Len(s) THEN SyntaxError
    ELSE IF s[i] = Q
    THEN LET j == ClosingQuote(s, i + 1) IN
         IF j = 0 THEN SyntaxError
         ELSE Parsed(StringValue(SubSeq(s, i + 1, j - 1)), j + 1)
    ELSE IF s[i] \in Digits
    THEN LET j == DigitsEnd(s, i) IN
         \* JSON has no leading zeros
         IF s[i] = "0" /\ j > i + 1 THEN SyntaxError
         ELSE Parsed(NumberValue(SubSeq(s, i, j - 1)), j)
    ELSE SyntaxError

\* the members of an object, from the key at i to the closing brace
RECURSIVE ParseMembers(_, _, _)
ParseMembers(s, i, acc) ==
    LET key == ParseScalar(s, i) IN
    IF ~key.ok \/ key.value.t # "string" THEN SyntaxError
    ELSE LET c == SkipWs(s, key.next) IN
    IF c > Len(s) \/ s[c] # ":" THEN SyntaxError
    ELSE LET val == ParseScalar(s, SkipWs(s, c + 1)) IN
    IF ~val.ok THEN SyntaxError
    ELSE LET e == SkipWs(s, val.next)
             members == Append(acc, [k |-> key.value.v, val |-> val.value])
         IN
    IF e > Len(s) THEN SyntaxError
    ELSE IF s[e] = "}" THEN Parsed(ObjectValue(members), e + 1)
    ELSE IF s[e] = "," THEN ParseMembers(s, SkipWs(s, e + 1), members)
    ELSE SyntaxError

ParseValue(s, i) ==
    IF i <= Len(s) /\ s[i] = "{"
    THEN LET j == SkipWs(s, i + 1) IN
         IF j <= Len(s) /\ s[j] = "}" THEN Parsed(ObjectValue(<<>>), j + 1)
         ELSE ParseMembers(s, j, <<>>)
    ELSE ParseScalar(s, i)

\* JSON.parse(text): ok = FALSE when it throws
JSONParse(s) ==
    LET r == ParseValue(s, SkipWs(s, 1)) IN
    IF r.ok /\ SkipWs(s, r.next) = Len(s) + 1 THEN r ELSE SyntaxError

\* event[key]: the last member of that name, undefined when there is none
RECURSIVE Lookup(_, _, _)
Lookup(members, key, i) ==
    IF i = 0 THEN Undefined
    ELSE IF members[i].k = key THEN members[i].val
    ELSE Lookup(members, key, i - 1)

Get(val, key) == Lookup(val.m, key, Len(val.m))

RECURSIVE AllZero(_)
AllZero(chars) == chars = <<>> \/ (Head(chars) = "0" /\ AllZero(Tail(chars)))

\* a test for presence, `event.delta !== undefined`
TruthyDefined(val) == val.t # "undefined"

\* JavaScript truthiness of a value
Truthy(val) ==
    CASE val.t = "string" -> val.v # <<>>
      [] val.t = "number" -> ~AllZero(val.v)
      [] val.t = "object" -> TRUE
      [] OTHER -> FALSE

\* the JSON text of the value instead, as JSON.stringify(event.delta) gives
ToStrJson(val) == <<Q>> \o val.v \o <<Q>>

\* String(value), as `fullContent += event.delta` coerces it
ToStr(val) == val.v

(***************************************************************************)
(* The backend (environment): the events it writes and their SSE bytes.    *)
(* An event line is `data: <json>` and a line end; "cut" is a text-delta   *)
(* line whose line end never arrives (the body ends right after it).       *)
(***************************************************************************)
DataPrefix == <<"d", "a", "t", "a", ":", " ">>
DoneSentinel == <<"[", "D", "O", "N", "E", "]">>
TypeKey == <<"t", "y", "p", "e">>
DeltaKey == <<"d", "e", "l", "t", "a">>
TextDelta == <<"t", "e", "x", "t", "-", "d", "e", "l", "t", "a">>
Finish == <<"f", "i", "n", "i", "s", "h">>

Quoted(chars) == <<Q>> \o chars \o <<Q>>

\* {"type":"<type>"}
JsonType(type) == <<"{">> \o Quoted(TypeKey) \o <<":">> \o Quoted(type) \o <<"}">>

\* {"type":"text-delta","delta":"<delta>"}
JsonDelta(delta) ==
    <<"{">> \o Quoted(TypeKey) \o <<":">> \o Quoted(TextDelta) \o <<",">>
        \o Quoted(DeltaKey) \o <<":">> \o Quoted(delta) \o <<"}">>

UpstreamEvents == <<
    [kind |-> "text-delta", delta |-> <<"H", "i">>, eol |-> <<"\n">>],
    [kind |-> "text-delta", delta |-> <<"l", EAcute, " ">>, eol |-> <<"\r", "\n">>],
    [kind |-> "text-delta", delta |-> <<>>, eol |-> <<"\n">>],
    [kind |-> "finish", delta |-> <<>>, eol |-> <<"\n">>],
    [kind |-> "done", delta |-> <<>>, eol |-> <<"\n">>],
    [kind |-> "broken", delta |-> <<"x">>, eol |-> <<"\n">>],
    [kind |-> "blank", delta |-> <<>>, eol |-> <<"\n">>],
    [kind |-> "cut", delta |-> <<"!">>, eol |-> <<>>] >>

CutEvent == Len(UpstreamEvents)

KindOfEvent(e) == UpstreamEvents[e].kind

\* the text of one event as the backend writes it
EventText(e) ==
    CASE e.kind = "text-delta" -> DataPrefix \o JsonDelta(e.delta) \o e.eol
      [] e.kind = "cut" -> DataPrefix \o JsonDelta(e.delta)
      [] e.kind = "finish" -> DataPrefix \o JsonType(Finish) \o e.eol
      [] e.kind = "done" -> DataPrefix \o DoneSentinel \o e.eol
      \* a JSON text that stops in the middle of a string
      [] e.kind = "broken" ->
            DataPrefix \o <<"{">> \o Quoted(DeltaKey) \o <<":", Q>> \o e.delta
      [] OTHER -> e.eol

\* TextEncoder on the character subset
Utf8(text) ==
    Concat([i \in 1..Len(text) |->
               IF text[i] = EAcute THEN <<LeadByte, ContByte>> ELSE <<text[i]>>],
           1, Len(text))

\* the bytes of one event; the broken line stops in the middle of a
\* character as well, its lead byte is followed by the line end
EventBytes(e) ==
    IF e.kind = "broken"
    THEN Utf8(EventText(e)) \o <<LeadByte>> \o Utf8(e.eol)
    ELSE Utf8(EventText(e))

\* the bytes of a response body that carries the events numbered in `evs`
RECURSIVE BodyBytes(_)
BodyBytes(evs) ==
    IF evs = <<>> THEN <<>>
    ELSE EventBytes(UpstreamEvents[Head(evs)]) \o BodyBytes(Tail(evs))

\* the response bodies of at most n events; the body may end in a cut line
RECURSIVE EventSeqs(_)
EventSeqs(n) ==
    IF n = 0 THEN {<<>>}
    ELSE LET shorter == EventSeqs(n - 1) IN
         shorter \cup {Append(s, e) : s \in {x \in shorter : Len(x) = n - 1},
                                    e \in 1..(CutEvent - 1)}

Bodies(n) ==
    EventSeqs(n) \cup {Append(s, CutEvent) : s \in EventSeqs(n - 1)}

(***************************************************************************)
(* State.                                                                  *)
(***************************************************************************)
VARIABLES
    server,       \* 1: the server of lines 42-219, 2: the server of lines 264-404
    secret,       \* SERVER_API_KEY
    req,          \* the inbound request
    pc,           \* where the handler of the request is
    payload,      \* the body of the POST sent to the backend
    upstreamStatus, \* the status of the backend's response, 0 before it
    stream,       \* body.stream, the mode the caller asked for
    sent,         \* the events of the backend's response body
    upstream,     \* the bytes of the body the reader has not returned yet
    dec,          \* the TextDecoder's carried bytes
    buffer,       \* `buffer`: the text after the last newline
    fullContent,  \* `fullContent` of the non-streaming handler
    out,          \* what controller.enqueue accepted, in order
    ctrl,         \* the outbound ReadableStream: readable, closed or errored
    clientGone,   \* the inbound client cancelled the outbound stream
    readFailed,   \* a read of the upstream body rejected
    splitReads,   \* history: some read ended inside a line
    response,     \* the Response the handler returned
    reading,      \* the reads of the upstream body issued and not settled
    enqueueThrew, \* history: controller.enqueue threw and the throw was caught
    other         \* a second chat request in flight in the same process

vars == <<server, secret, req, pc, payload, upstreamStatus, stream, sent,
          upstream, dec, buffer, fullContent, out, ctrl, clientGone,
          readFailed, splitReads, response, reading, enqueueThrew, other>>

Model == <<"g", "p", "t">>

NoResponse == [status |-> 0, body |-> "none", content |-> <<>>]
Respond(status, body, content) ==
    [status |-> status, body |-> body, content |-> content]

\* the locals of the handler of a second request (lines 89, 127-133,
\* 174-177) and the Response it returned; pc "none": no second request
NoOther ==
    [pc |-> "none", stream |-> FALSE, sent |-> <<>>, upstream |-> <<>>,
     dec |-> <<>>, buffer |-> <<>>, fullContent |-> <<>>, out |-> <<>>,
     ctrl |-> "readable", readFailed |-> FALSE, response |-> NoResponse]

\* one item of the outbound stream
ChunkFrame(delta) == [frame |-> "chunk", model |-> Model, content |-> delta]
DoneFrame == [frame |-> "[DONE]", model |-> <<>>, content |-> Undefined]

(***************************************************************************)
(* The framing steps shared by the three read loops.                       *)
(***************************************************************************)
\* a read loop that forgets the unfinished line: `buffer = ""`
RetainedDropped(text) == <<>>

\* a line loop that also takes the text after the last line end
CompleteLinesEager(text) == Split(text)

\* lines 139-140, 183-184, 354-355: the complete lines, and what stays buffered
CompleteLines(text) == LET lines == Split(text) IN SubSeq(lines, 1, Len(lines) - 1)
Retained(text) == LET lines == Split(text) IN lines[Len(lines)]

\* the streaming handlers skip the sentinel before parsing (lines 145, 360)
SkipsDone(dataStr) == dataStr = DoneSentinel

\* a handler that passes a data string on as text when it is not JSON
LineUnitsRaw(line, skipDone) ==
    IF ~StartsWith(line, DataPrefix) THEN <<>>
    ELSE LET dataStr == Trim(Slice(line, 6)) IN
         IF skipDone /\ SkipsDone(dataStr) THEN <<>>
         ELSE LET r == JSONParse(dataStr) IN
              IF ~r.ok THEN <<StringValue(dataStr)>>
              ELSE LET event == r.value IN
                   IF /\ Get(event, TypeKey) = StringValue(TextDelta)
                      /\ Truthy(Get(event, DeltaKey))
                   THEN <<Get(event, DeltaKey)>>
                   ELSE <<>>

\* lines 143-158, 358-373 (skipDone) and 187-193: the delta a line yields, if any
LineUnits(line, skipDone) ==
    IF ~StartsWith(line, DataPrefix) THEN <<>>
    ELSE LET dataStr == Trim(Slice(line, 6)) IN
         IF skipDone /\ SkipsDone(dataStr) THEN <<>>
         ELSE LET r == JSONParse(dataStr) IN
              IF ~r.ok THEN <<>>
              ELSE LET event == r.value IN
                   IF /\ Get(event, TypeKey) = StringValue(TextDelta)
                      /\ Truthy(Get(event, DeltaKey))
                   THEN <<Get(event, DeltaKey)>>
                   ELSE <<>>

\* a line loop that takes the sentinel for the end: `break` on [DONE]
RECURSIVE UnitsUntilDone(_, _)
UnitsUntilDone(lines, skipDone) ==
    IF lines = <<>> THEN <<>>
    ELSE IF /\ StartsWith(Head(lines), DataPrefix)
            /\ Trim(Slice(Head(lines), 6)) = DoneSentinel
    THEN <<>>
    ELSE LineUnits(Head(lines), skipDone) \o UnitsUntilDone(Tail(lines), skipDone)

\* the for loop over the lines of one read
RECURSIVE Units(_, _)
Units(lines, skipDone) ==
    IF lines = <<>> THEN <<>>
    ELSE LineUnits(Head(lines), skipDone) \o Units(Tail(lines), skipDone)

RECURSIVE Frames(_)
Frames(units) ==
    IF units = <<>> THEN <<>> ELSE <<ChunkFrame(Head(units))>> \o Frames(Tail(units))

RECURSIVE Joined(_)
Joined(units) ==
    IF units = <<>> THEN <<>> ELSE ToStr(Head(units)) \o Joined(Tail(units))

\* an enqueue that puts the new items first
EnqueueFront(queue, state, items) ==
    IF state = "readable" THEN items \o queue ELSE queue

\* controller.enqueue: a TypeError unless the stream is readable; the
\* handlers catch it (lines 146-158) and the item is lost
Enqueue(queue, state, items) == IF state = "readable" THEN queue \o items ELSE queue

\* controller.enqueue throws when something is enqueued on a stream that is
\* not readable
Throws(state, items) == state # "readable" /\ items # <<>>

\* a read loop that issues a second read while one is outstanding
IssueReadAhead(n) == n + 2

\* lines 136, 180, 350: `await reader.read()`: one read is issued, and the
\* handler goes on when it has settled
IssueRead(n) == n + 1
Settle(n) == n - 1

\* a read returns some of the bytes that are left
ReadSizes == {n \in 1..Len(upstream) : n <= MaxRead \/ n = Len(upstream)}

(***************************************************************************)
(* The request, authentication and the Request Translator.                 *)
(***************************************************************************)
BearerPrefix == <<"B", "e", "a", "r", "e", "r", " ">>

NoHeader == [present |-> FALSE, value |-> <<>>]
Header(value) == [present |-> TRUE, value |-> value]

NoSecret == [set |-> FALSE, value |-> <<>>]
Secret(value) == [set |-> TRUE, value |-> value]

\* a check that compares the header as it came
TokenRaw(authHeader) == authHeader

\* lines 61, 285-287:
\* authHeader?.startsWith("Bearer ") ? authHeader.slice(7) : authHeader
Token(authHeader) ==
    IF authHeader.present /\ StartsWith(authHeader.value, BearerPrefix)
    THEN Header(Slice(authHeader.value, 7))
    ELSE authHeader

\* lines 59-62, 282-289: `if (SERVER_API_KEY)` and `token !== SERVER_API_KEY`
Rejects(key, authHeader) ==
    /\ key.set
    /\ key.value # <<>>
    /\ Token(authHeader) # Header(key.value)

\* a conversion that walks the messages from the last to the first
ConvertMessagesReversed(messages) ==
    [i \in 1..Len(messages) |->
        [role |-> messages[Len(messages) + 1 - i].role,
         parts |-> <<[type |-> "text",
                      text |-> messages[Len(messages) + 1 - i].content]>>]]

\* lines 100-104 and 251-257: messages.map(...); the random `id` of an entry
\* is left out
ConvertMessages(messages) ==
    [i \in 1..Len(messages) |->
        [role |-> messages[i].role,
         parts |-> <<[type |-> "text", text |-> messages[i].content]>>]]

NoPayload == [id |-> "", messages |-> <<>>, trigger |-> ""]
\* lines 94-110, 319-327
Payload(messages) ==
    [id |-> "DEFAULT_THREAD_ID", messages |-> ConvertMessages(messages),
     trigger |-> "submit-message"]

\* line 100 maps `messages` as it is; line 324 maps `messages || []`
MapsMissingMessages(s) == s = 2

ChatPath == "/v1/chat/completions"
ModelsPath == "/v1/models"

Finished(status, body) ==
    /\ pc' = "done"
    /\ response' = Respond(status, body, <<>>)
    /\ UNCHANGED <<server, secret, req, payload, upstreamStatus, stream, sent,
                   upstream, dec, buffer, fullContent, out, ctrl, clientGone,
                   readFailed, splitReads, reading, enqueueThrew, other>>

\* lines 48-56, 270-278
Preflight ==
    /\ pc = "recv"
    /\ req.method = "OPTIONS"
    /\ Finished(200, "cors")

\* lines 59-67, 282-300
Unauthorized ==
    /\ pc = "recv"
    /\ req.method # "OPTIONS"
    /\ Rejects(secret, req.auth)
    /\ Finished(401, "Invalid API Key")

Authorized ==
    /\ pc = "recv"
    /\ req.method # "OPTIONS"
    /\ ~Rejects(secret, req.auth)
    /\ pc' = "route"
    /\ UNCHANGED <<server, secret, req, payload, upstreamStatus, stream, sent,
                   upstream, dec, buffer, fullContent, out, ctrl, clientGone,
                   readFailed, response, splitReads, reading, enqueueThrew,
                   other>>

\* lines 70-83, 303-311
Models ==
    /\ pc = "route"
    /\ req.path = ModelsPath /\ req.method = "GET"
    /\ Finished(200, "list")

\* lines 217, 402
NotFound ==
    /\ pc = "route"
    /\ ~(req.path = ModelsPath /\ req.method = "GET")
    /\ ~(req.path = ChatPath /\ req.method = "POST")
    /\ Finished(404, "Not Found")

\* lines 86-88, 314-316: the chat endpoint awaits req.json()
EnterChat ==
    /\ pc = "route"
    /\ req.path = ChatPath /\ req.method = "POST"
    /\ pc' = "body"
    /\ UNCHANGED <<server, secret, req, payload, upstreamStatus, stream, sent,
                   upstream, dec, buffer, fullContent, out, ctrl, clientGone,
                   readFailed, response, splitReads, reading, enqueueThrew,
                   other>>

\* a handler that takes a body that is not JSON for an empty request
BodyRejectedDefaults ==
    /\ pc = "body"
    /\ ~req.body.json
    /\ stream' = FALSE
    /\ payload' = Payload(<<>>)
    /\ pc' = "fetch"
    /\ UNCHANGED <<server, secret, req, upstreamStatus, sent, upstream, dec,
                   buffer, fullContent, out, ctrl, clientGone, readFailed,
                   response, splitReads, reading, enqueueThrew, other>>

\* lines 88, 211-214, 316, 397-399: req.json() rejects
BodyRejected ==
    /\ pc = "body"
    /\ ~req.body.json
    /\ Finished(500, "Internal Server Error")

\* lines 100, 211-214: `messages` is undefined and messages.map throws
MapThrows ==
    /\ pc = "body"
    /\ req.body.json
    /\ ~req.body.hasMessages
    /\ ~MapsMissingMessages(server)
    /\ Finished(500, "Internal Server Error")

\* lines 89-116, 317-333: the payload is built and posted to the backend
Forward ==
    /\ pc = "body"
    /\ req.body.json
    /\ req.body.hasMessages \/ MapsMissingMessages(server)
    /\ stream' = req.body.stream
    /\ payload' = Payload(req.body.messages)
    /\ pc' = "fetch"
    /\ UNCHANGED <<server, secret, req, upstreamStatus, sent, upstream, dec,
                   buffer, fullContent, out, ctrl, clientGone, readFailed,
                   response, splitReads, reading, enqueueThrew, other>>

\* lines 112, 211-214, 329, 397-399: fetch rejects (the backend is unreachable)
FetchFails ==
    /\ pc = "fetch"
    /\ Finished(500, "Internal Server Error")

\* the backend answers with a status that is not 2xx
UpstreamRefuses ==
    /\ pc = "fetch"
    /\ upstreamStatus' = 500
    /\ pc' = "not-ok"
    /\ UNCHANGED <<server, secret, req, payload, stream, sent, upstream, dec,
                   buffer, fullContent, out, ctrl, clientGone, readFailed,
                   response, splitReads, reading, enqueueThrew, other>>

\* a status check that answers nothing and goes on to the handlers
BadGatewayFallsThrough ==
    /\ pc = "not-ok"
    /\ pc' = "dispatch"
    /\ UNCHANGED <<server, secret, req, payload, upstreamStatus, stream, sent,
                   upstream, dec, buffer, fullContent, out, ctrl, clientGone,
                   readFailed, splitReads, response, reading, enqueueThrew,
                   other>>

\* lines 118-122, 335-337
BadGateway ==
    /\ pc = "not-ok"
    /\ Finished(502, "Upstream Error")

\* lines 119, 211-214: reading the error text rejects
ErrorTextFails ==
    /\ pc = "not-ok"
    /\ server = 1
    /\ Finished(500, "Internal Server Error")

\* lines 123, 338: a 2xx response without a body
NoBody ==
    /\ pc = "fetch"
    /\ pc' = "done"
    /\ upstreamStatus' = 200
    /\ response' = Respond(500, "Empty Upstream Body", <<>>)
    /\ UNCHANGED <<server, secret, req, payload, stream, sent, upstream, dec,
                   buffer, fullContent, out, ctrl, clientGone, readFailed,
                   splitReads, reading, enqueueThrew, other>>

\* the backend answers 200 with a body carrying the events `evs`
UpstreamAnswers(evs) ==
    /\ pc = "fetch"
    /\ upstreamStatus' = 200
    /\ sent' = evs
    /\ upstream' = BodyBytes(evs)
    /\ pc' = "dispatch"
    /\ UNCHANGED <<server, secret, req, payload, stream, dec, buffer,
                   fullContent, out, ctrl, clientGone, readFailed, response,
                   splitReads, reading, enqueueThrew, other>>

(***************************************************************************)
(* The handler from `if (stream)` on.                                      *)
(***************************************************************************)
\* lines 126-169, 340-393: the ReadableStream is built, start() runs to its
\* first await, and the Response holding the stream is returned
StartStream ==
    /\ pc = "dispatch"
    /\ stream
    /\ pc' = "read"
    /\ response' = Respond(200, "stream", <<>>)
    /\ reading' = IssueRead(reading)
    /\ UNCHANGED <<server, secret, req, payload, upstreamStatus, stream, sent,
                   upstream, dec, buffer, fullContent, out, ctrl, clientGone,
                   readFailed, splitReads, enqueueThrew, other>>

\* lines 173-177: the non-streaming handler of the first server starts reading
StartBuffered ==
    /\ pc = "dispatch"
    /\ ~stream
    /\ server = 1
    /\ pc' = "read"
    /\ reading' = IssueRead(reading)
    /\ UNCHANGED <<server, secret, req, payload, upstreamStatus, stream, sent,
                   upstream, dec, buffer, fullContent, out, ctrl, clientGone,
                   readFailed, response, splitReads, enqueueThrew, other>>

\* lines 394-396: the second server has no non-streaming handler
StreamRequired ==
    /\ pc = "dispatch"
    /\ ~stream
    /\ server = 2
    /\ pc' = "done"
    /\ response' = Respond(400, "Stream required", <<>>)
    /\ UNCHANGED <<server, secret, req, payload, upstreamStatus, stream, sent,
                   upstream, dec, buffer, fullContent, out, ctrl, clientGone,
                   readFailed, splitReads, reading, enqueueThrew, other>>

\* a complete line whose data string JSON.parse rejects
Unparseable(line) ==
    /\ StartsWith(line, DataPrefix)
    /\ ~SkipsDone(Trim(Slice(line, 6)))
    /\ ~JSONParse(Trim(Slice(line, 6))).ok

\* a read loop without the try/catch around JSON.parse: the SyntaxError of
\* a line goes to the outer catch, which errors the stream
ReadStreamingStrict(n) ==
    /\ pc = "read"
    /\ stream
    /\ LET d == Decode(dec, SubSeq(upstream, 1, n))
           text == buffer \o d.text
           lines == CompleteLines(text)
           thrown == \E i \in 1..Len(lines) : Unparseable(lines[i])
       IN /\ dec' = d.pending
          /\ buffer' = Retained(text)
          /\ out' = IF thrown THEN out
                    ELSE Enqueue(out, ctrl, Frames(Units(lines, TRUE)))
          /\ enqueueThrew' =
                (enqueueThrew \/ (~thrown /\ Throws(ctrl, Units(lines, TRUE))))
          /\ splitReads' = (splitReads \/ Retained(text) # <<>> \/ d.pending # <<>>)
          /\ ctrl' = IF thrown /\ ctrl = "readable" THEN "errored" ELSE ctrl
          /\ pc' = IF thrown THEN "done" ELSE pc
          /\ reading' = IF thrown THEN Settle(reading)
                        ELSE IssueRead(Settle(reading))
    /\ upstream' = Slice(upstream, n)
    /\ UNCHANGED <<server, secret, req, payload, upstreamStatus, stream, sent,
                   fullContent, clientGone, readFailed, response, other>>

\* lines 136-160, 350-375: one read returns n bytes and its lines are handled
ReadStreaming(n) ==
    /\ pc = "read"
    /\ stream
    /\ LET d == Decode(dec, SubSeq(upstream, 1, n))
           text == buffer \o d.text
           rest == Retained(text)
           units == Units(CompleteLines(text), TRUE)
       IN /\ dec' = d.pending
          /\ buffer' = rest
          /\ out' = Enqueue(out, ctrl, Frames(units))
          /\ enqueueThrew' = (enqueueThrew \/ Throws(ctrl, units))
          /\ splitReads' = (splitReads \/ rest # <<>> \/ d.pending # <<>>)
    /\ upstream' = Slice(upstream, n)
    /\ reading' = IssueRead(Settle(reading))
    /\ UNCHANGED <<server, secret, req, payload, upstreamStatus, pc, stream,
                   sent, fullContent, ctrl, clientGone, readFailed, response,
                   other>>

\* lines 180-194: the same in the non-streaming handler
ReadBuffered(n) ==
    /\ pc = "read"
    /\ ~stream
    /\ LET d == Decode(dec, SubSeq(upstream, 1, n))
           text == buffer \o d.text
           rest == Retained(text)
       IN /\ dec' = d.pending
          /\ buffer' = rest
          /\ fullContent' = fullContent \o Joined(Units(CompleteLines(text), FALSE))
          /\ splitReads' = (splitReads \/ rest # <<>> \/ d.pending # <<>>)
    /\ upstream' = Slice(upstream, n)
    /\ reading' = IssueRead(Settle(reading))
    /\ UNCHANGED <<server, secret, req, payload, upstreamStatus, pc, stream,
                   sent, out, ctrl, clientGone, readFailed, response,
                   enqueueThrew, other>>

\* a handler that treats what is left in the buffer at the end of the body
\* as a last line
EndStreamingFlushes ==
    /\ pc = "read"
    /\ stream
    /\ upstream = <<>>
    /\ out' = Enqueue(out, ctrl, Frames(LineUnits(buffer, TRUE)) \o <<DoneFrame>>)
    /\ ctrl' = IF ctrl = "readable" THEN "closed" ELSE ctrl
    /\ pc' = "done"
    /\ enqueueThrew' = (enqueueThrew \/ Throws(ctrl, <<DoneFrame>>))
    /\ reading' = Settle(reading)
    /\ UNCHANGED <<server, secret, req, payload, upstreamStatus, stream, sent,
                   upstream, dec, buffer, fullContent, clientGone, readFailed,
                   response, splitReads, other>>

\* lines 137, 162-164, 351, 377-382: end of the body; the terminator is
\* enqueued and the stream closed.  With the stream already cancelled the
\* enqueue throws, controller.error does nothing and close() throws.
EndStreaming ==
    /\ pc = "read"
    /\ stream
    /\ upstream = <<>>
    /\ out' = Enqueue(out, ctrl, <<DoneFrame>>)
    /\ ctrl' = IF ctrl = "readable" THEN "closed" ELSE ctrl
    /\ pc' = "done"
    /\ enqueueThrew' = (enqueueThrew \/ Throws(ctrl, <<DoneFrame>>))
    /\ reading' = Settle(reading)
    /\ UNCHANGED <<server, secret, req, payload, upstreamStatus, stream, sent,
                   upstream, dec, buffer, fullContent, clientGone, readFailed,
                   response, splitReads, other>>

\* lines 181, 197-208: end of the body; the completion is returned
EndBuffered ==
    /\ pc = "read"
    /\ ~stream
    /\ upstream = <<>>
    /\ response' = Respond(200, "chat.completion", fullContent)
    /\ pc' = "done"
    /\ reading' = Settle(reading)
    /\ UNCHANGED <<server, secret, req, payload, upstreamStatus, stream, sent,
                   upstream, dec, buffer, fullContent, out, ctrl, clientGone,
                   readFailed, splitReads, enqueueThrew, other>>

\* a catch block that ends the stream normally instead
ControllerErrorCloses(state) == IF state = "readable" THEN "closed" ELSE state

\* controller.error(err): only a readable stream becomes errored
ControllerError(state) == IF state = "readable" THEN "errored" ELSE state

\* lines 136, 163-164, 350, 378-382: reader.read() rejects; controller.error,
\* then controller.close() in `finally`, which throws on the errored stream
FailStreaming ==
    /\ pc = "read"
    /\ stream
    /\ readFailed' = TRUE
    /\ ctrl' = ControllerError(ctrl)
    /\ pc' = "done"
    /\ reading' = Settle(reading)
    /\ UNCHANGED <<server, secret, req, payload, upstreamStatus, stream, sent,
                   upstream, dec, buffer, fullContent, out, clientGone,
                   response, splitReads, enqueueThrew, other>>

\* a handler that answers a failed read with what it has accumulated
FailBufferedPartial ==
    /\ pc = "read"
    /\ ~stream
    /\ readFailed' = TRUE
    /\ response' = Respond(200, "chat.completion", fullContent)
    /\ pc' = "done"
    /\ reading' = Settle(reading)
    /\ UNCHANGED <<server, secret, req, payload, upstreamStatus, stream, sent,
                   upstream, dec, buffer, fullContent, out, ctrl, clientGone,
                   splitReads, enqueueThrew, other>>

\* lines 180, 211-214: reader.read() rejects; the outer catch answers 500
FailBuffered ==
    /\ pc = "read"
    /\ ~stream
    /\ readFailed' = TRUE
    /\ response' = Respond(500, "Internal Server Error", <<>>)
    /\ pc' = "done"
    /\ reading' = Settle(reading)
    /\ UNCHANGED <<server, secret, req, payload, upstreamStatus, stream, sent,
                   upstream, dec, buffer, fullContent, out, ctrl, clientGone,
                   splitReads, enqueueThrew, other>>

\* the inbound client disconnects: the runtime cancels the outbound stream
Disconnect ==
    /\ pc = "read"
    /\ stream
    /\ ~clientGone
    /\ clientGone' = TRUE
    /\ ctrl' = "closed"
    /\ UNCHANGED <<server, secret, req, payload, upstreamStatus, pc, stream,
                   sent, upstream, dec, buffer, fullContent, out, readFailed,
                   response, splitReads, reading, enqueueThrew, other>>

Translate ==
    \/ StartStream
    \/ StartBuffered
    \/ StreamRequired
    \/ \E n \in ReadSizes : ReadStreaming(n)
    \/ \E n \in ReadSizes : ReadBuffered(n)
    \/ EndStreaming
    \/ EndBuffered
    \/ FailStreaming
    \/ FailBuffered
    \/ Disconnect

\* the handler at `if (stream)`, the backend having answered 200 with a body
InitStream ==
    /\ server \in {1, 2}
    /\ secret = NoSecret
    /\ stream \in BOOLEAN
    /\ req = [method |-> "POST", path |-> ChatPath, auth |-> NoHeader,
              body |-> [json |-> TRUE, hasMessages |-> TRUE, messages |-> <<>>,
                        stream |-> stream]]
    /\ payload = Payload(<<>>)
    /\ upstreamStatus = 200
    /\ pc = "dispatch"
    /\ sent \in Bodies(MaxLines)
    /\ upstream = BodyBytes(sent)
    /\ dec = <<>>
    /\ buffer = <<>>
    /\ fullContent = <<>>
    /\ out = <<>>
    /\ ctrl = "readable"
    /\ clientGone = FALSE
    /\ readFailed = FALSE
    /\ splitReads = FALSE
    /\ response = NoResponse
    /\ reading = 0
    /\ enqueueThrew = FALSE
    /\ other = NoOther

SpecStream == InitStream /\ [][Translate]_vars

\* the steps of a streaming request
Streaming ==
    \/ StartStream
    \/ FailStreaming
    \/ EndStreaming
    \/ Disconnect
    \/ \E n \in ReadSizes : ReadStreaming(n)

\* the bodies of the streaming runs: the shorter ones, and those that begin
\* with the line that is not JSON
LifecycleBodies ==
    {evs \in Bodies(MaxLines) : Len(evs) < MaxLines \/ KindOfEvent(evs[1]) = "broken"}

InitLifecycle ==
    /\ server \in {1, 2}
    /\ secret = NoSecret
    /\ stream = TRUE
    /\ req = [method |-> "POST", path |-> ChatPath, auth |-> NoHeader,
              body |-> [json |-> TRUE, hasMessages |-> TRUE, messages |-> <<>>,
                        stream |-> TRUE]]
    /\ payload = Payload(<<>>)
    /\ upstreamStatus = 200
    /\ pc = "dispatch"
    /\ sent \in LifecycleBodies
    /\ upstream = BodyBytes(sent)
    /\ dec = <<>>
    /\ buffer = <<>>
    /\ fullContent = <<>>
    /\ out = <<>>
    /\ ctrl = "readable"
    /\ clientGone = FALSE
    /\ readFailed = FALSE
    /\ splitReads = FALSE
    /\ response = NoResponse
    /\ reading = 0
    /\ enqueueThrew = FALSE
    /\ other = NoOther

\* the streaming runs in which every read of the upstream body settles (with
\* bytes, with the end of the body or with a failure) and the handler's
\* code runs when it has
SpecLifecycle == InitLifecycle /\ [][Streaming]_vars /\ WF_vars(Streaming)

\* lines the backend may write, one per response body, for the line filter
FilterLines ==
    LET hi == JsonDelta(<<"H", "i">>) IN
    {DataPrefix \o hi,
     DataPrefix \o hi \o <<"\r">>,
     DataPrefix \o <<" ", "\t">> \o hi \o <<" ">>,
     DataPrefix \o <<"{">> \o Quoted(DeltaKey) \o <<":">> \o Quoted(<<"H", "i">>)
         \o <<",">> \o Quoted(TypeKey) \o <<":">> \o Quoted(TextDelta) \o <<"}">>,
     DataPrefix \o JsonDelta(<<EAcute>>),
     <<"d", "a", "t", "a", ":">> \o hi,
     <<" ">> \o DataPrefix \o hi,
     <<"D", "A", "T", "A", ":", " ">> \o hi,
     hi,
     <<>>,
     DataPrefix,
     DataPrefix \o DoneSentinel,
     DataPrefix \o <<"{">> \o Quoted(DeltaKey) \o <<":", Q, "H", "i">>,
     DataPrefix \o hi \o <<"}">>,
     DataPrefix \o JsonType(Finish),
     DataPrefix \o <<"{">> \o Quoted(TypeKey) \o <<":">> \o Quoted(Finish)
         \o <<",">> \o Quoted(DeltaKey) \o <<":">> \o Quoted(<<"H", "i">>) \o <<"}">>,
     DataPrefix \o Quoted(TextDelta),
     DataPrefix \o JsonDelta(<<>>),
     DataPrefix \o JsonType(TextDelta)}

\* the handler at `if (stream)`, the backend having answered 200 with a body
\* of one line of FilterLines and its line end
InitFilter ==
    /\ server \in {1, 2}
    /\ secret = NoSecret
    /\ stream \in BOOLEAN
    /\ req = [method |-> "POST", path |-> ChatPath, auth |-> NoHeader,
              body |-> [json |-> TRUE, hasMessages |-> TRUE, messages |-> <<>>,
                        stream |-> stream]]
    /\ payload = Payload(<<>>)
    /\ upstreamStatus = 200
    /\ pc = "dispatch"
    /\ sent = <<>>
    /\ \E line \in FilterLines : upstream = Utf8(line) \o <<NL>>
    /\ dec = <<>>
    /\ buffer = <<>>
    /\ fullContent = <<>>
    /\ out = <<>>
    /\ ctrl = "readable"
    /\ clientGone = FALSE
    /\ readFailed = FALSE
    /\ splitReads = FALSE
    /\ response = NoResponse
    /\ reading = 0
    /\ enqueueThrew = FALSE
    /\ other = NoOther

SpecFilter == InitFilter /\ [][Translate]_vars

(***************************************************************************)
(* The whole handler, from the arrival of a request.                       *)
(***************************************************************************)
Secrets == {NoSecret, Secret(<<"s", "3">>), Secret(BearerPrefix \o <<"k">>)}

AuthHeaders ==
    {NoHeader} \cup
    {Header(h) : h \in {<<"s", "3">>, BearerPrefix \o <<"s", "3">>,
                        BearerPrefix \o <<"n", "o">>, BearerPrefix \o <<"k">>,
                        BearerPrefix \o BearerPrefix \o <<"k">>}}

Messages == {[role |-> "user", content |-> "hi"],
             [role |-> "assistant", content |-> "yo"]}

RECURSIVE MessageLists(_)
MessageLists(n) ==
    IF n = 0 THEN {<<>>}
    ELSE LET shorter == MessageLists(n - 1) IN
         shorter \cup {Append(l, m) : l \in {x \in shorter : Len(x) = n - 1},
                                     m \in Messages}

RequestBodies ==
    {[json |-> FALSE, hasMessages |-> FALSE, messages |-> <<>>, stream |-> FALSE]}
    \cup {[json |-> TRUE, hasMessages |-> FALSE, messages |-> <<>>, stream |-> st] :
            st \in BOOLEAN}
    \cup {[json |-> TRUE, hasMessages |-> TRUE, messages |-> l, stream |-> st] :
            l \in MessageLists(MaxMessages), st \in BOOLEAN}

Requests ==
    [method : {"OPTIONS", "GET", "POST"},
     path : {ModelsPath, ChatPath, "/"},
     auth : AuthHeaders,
     body : RequestBodies]

\* the response bodies the backend gives in the whole-handler specification
GatewayBodies == {<<1>>, <<5, CutEvent>>}

Init ==
    /\ server \in {1, 2}
    /\ secret \in Secrets
    /\ req \in Requests
    /\ pc = "recv"
    /\ payload = NoPayload
    /\ upstreamStatus = 0
    /\ stream = FALSE
    /\ sent = <<>>
    /\ upstream = <<>>
    /\ dec = <<>>
    /\ buffer = <<>>
    /\ fullContent = <<>>
    /\ out = <<>>
    /\ ctrl = "readable"
    /\ clientGone = FALSE
    /\ readFailed = FALSE
    /\ splitReads = FALSE
    /\ response = NoResponse
    /\ reading = 0
    /\ enqueueThrew = FALSE
    /\ other = NoOther

Next ==
    \/ Preflight
    \/ Unauthorized
    \/ Authorized
    \/ Models
    \/ NotFound
    \/ EnterChat
    \/ BodyRejected
    \/ MapThrows
    \/ Forward
    \/ FetchFails
    \/ UpstreamRefuses
    \/ BadGateway
    \/ ErrorTextFails
    \/ NoBody
    \/ \E evs \in GatewayBodies : UpstreamAnswers(evs)
    \/ Translate

Spec == Init /\ [][Next]_vars

(***************************************************************************)
(* Two chat requests in flight in one process.  The handler of the second  *)
(* runs the same code on its own locals, the record `other`; its steps     *)
(* interleave with those of the first at every await.  The client of the   *)
(* second request stays connected.                                         *)
(***************************************************************************)
\* lines 126-169, 340-393, for the second request
OtherStartStream ==
    /\ other.pc = "dispatch"
    /\ other.stream
    /\ other' = [other EXCEPT !.pc = "read",
                              !.response = Respond(200, "stream", <<>>)]
    /\ UNCHANGED <<server, secret, req, pc, payload, upstreamStatus, stream,
                   sent, upstream, dec, buffer, fullContent, out, ctrl,
                   clientGone, readFailed, splitReads, response, reading,
                   enqueueThrew>>

\* lines 173-177
OtherStartBuffered ==
    /\ other.pc = "dispatch"
    /\ ~other.stream
    /\ server = 1
    /\ other' = [other EXCEPT !.pc = "read"]
    /\ UNCHANGED <<server, secret, req, pc, payload, upstreamStatus, stream,
                   sent, upstream, dec, buffer, fullContent, out, ctrl,
                   clientGone, readFailed, splitReads, response, reading,
                   enqueueThrew>>

\* lines 394-396
OtherStreamRequired ==
    /\ other.pc = "dispatch"
    /\ ~other.stream
    /\ server = 2
    /\ other' = [other EXCEPT !.pc = "done",
                              !.response = Respond(400, "Stream required", <<>>)]
    /\ UNCHANGED <<server, secret, req, pc, payload, upstreamStatus, stream,
                   sent, upstream, dec, buffer, fullContent, out, ctrl,
                   clientGone, readFailed, splitReads, response, reading,
                   enqueueThrew>>

\* a streaming handler whose `buffer` is a variable of the module, shared by
\* all requests, instead of a local of start()
OtherReadStreamingShared(n) ==
    /\ other.pc = "read"
    /\ other.stream
    /\ LET d == Decode(other.dec, SubSeq(other.upstream, 1, n))
           text == buffer \o d.text
       IN /\ other' = [other EXCEPT
                 !.dec = d.pending,
                 !.out = Enqueue(other.out, other.ctrl,
                                 Frames(Units(CompleteLines(text), TRUE))),
                 !.upstream = Slice(other.upstream, n)]
          /\ buffer' = Retained(text)
    /\ UNCHANGED <<server, secret, req, pc, payload, upstreamStatus, stream,
                   sent, upstream, dec, fullContent, out, ctrl, clientGone,
                   readFailed, splitReads, response, reading, enqueueThrew>>

\* lines 136-160, 350-375
OtherReadStreaming(n) ==
    /\ other.pc = "read"
    /\ other.stream
    /\ LET d == Decode(other.dec, SubSeq(other.upstream, 1, n))
           text == other.buffer \o d.text
       IN other' = [other EXCEPT
              !.dec = d.pending,
              !.buffer = Retained(text),
              !.out = Enqueue(other.out, other.ctrl,
                              Frames(Units(CompleteLines(text), TRUE))),
              !.upstream = Slice(other.upstream, n)]
    /\ UNCHANGED <<server, secret, req, pc, payload, upstreamStatus, stream,
                   sent, upstream, dec, buffer, fullContent, out, ctrl,
                   clientGone, readFailed, splitReads, response, reading,
                   enqueueThrew>>

\* lines 180-194
OtherReadBuffered(n) ==
    /\ other.pc = "read"
    /\ ~other.stream
    /\ LET d == Decode(other.dec, SubSeq(other.upstream, 1, n))
           text == other.buffer \o d.text
       IN other' = [other EXCEPT
              !.dec = d.pending,
              !.buffer = Retained(text),
              !.fullContent = other.fullContent
                                 \o Joined(Units(CompleteLines(text), FALSE)),
              !.upstream = Slice(other.upstream, n)]
    /\ UNCHANGED <<server, secret, req, pc, payload, upstreamStatus, stream,
                   sent, upstream, dec, buffer, fullContent, out, ctrl,
                   clientGone, readFailed, splitReads, response, reading,
                   enqueueThrew>>

\* lines 137, 162-164, 351, 377-382
OtherEndStreaming ==
    /\ other.pc = "read"
    /\ other.stream
    /\ other.upstream = <<>>
    /\ other' = [other EXCEPT
           !.out = Enqueue(other.out, other.ctrl, <<DoneFrame>>),
           !.ctrl = IF other.ctrl = "readable" THEN "closed" ELSE other.ctrl,
           !.pc = "done"]
    /\ UNCHANGED <<server, secret, req, pc, payload, upstreamStatus, stream,
                   sent, upstream, dec, buffer, fullContent, out, ctrl,
                   clientGone, readFailed, splitReads, response, reading,
                   enqueueThrew>>

\* lines 181, 197-208
OtherEndBuffered ==
    /\ other.pc = "read"
    /\ ~other.stream
    /\ other.upstream = <<>>
    /\ other' = [other EXCEPT
           !.response = Respond(200, "chat.completion", other.fullContent),
           !.pc = "done"]
    /\ UNCHANGED <<server, secret, req, pc, payload, upstreamStatus, stream,
                   sent, upstream, dec, buffer, fullContent, out, ctrl,
                   clientGone, readFailed, splitReads, response, reading,
                   enqueueThrew>>

\* lines 136, 163-164, 180, 211-214: a read of the second request's body fails
OtherFail ==
    /\ other.pc = "read"
    /\ other' = [other EXCEPT
           !.readFailed = TRUE,
           !.ctrl = IF other.stream THEN ControllerError(other.ctrl)
                                    ELSE other.ctrl,
           !.response = IF other.stream THEN other.response
                        ELSE Respond(500, "Internal Server Error", <<>>),
           !.pc = "done"]
    /\ UNCHANGED <<server, secret, req, pc, payload, upstreamStatus, stream,
                   sent, upstream, dec, buffer, fullContent, out, ctrl,
                   clientGone, readFailed, splitReads, response, reading,
                   enqueueThrew>>

\* a read of the second request returns one packet, or all that is left
OtherReadSizes ==
    {n \in 1..Len(other.upstream) : n = Packet \/ n = Len(other.upstream)}

OtherTranslate ==
    \/ OtherStartStream
    \/ OtherStartBuffered
    \/ OtherStreamRequired
    \/ \E n \in OtherReadSizes : OtherReadStreaming(n)
    \/ \E n \in OtherReadSizes : OtherReadBuffered(n)
    \/ OtherEndStreaming
    \/ OtherEndBuffered
    \/ OtherFail

\* the bodies the backend gives to the two requests
ConcurrentBodies == {<<1, 2>>, <<5, 2>>}

\* both handlers at `if (stream)`, each with its own 200 response
InitConcurrent ==
    /\ server \in {1, 2}
    /\ secret = NoSecret
    /\ stream \in BOOLEAN
    /\ req = [method |-> "POST", path |-> ChatPath, auth |-> NoHeader,
              body |-> [json |-> TRUE, hasMessages |-> TRUE, messages |-> <<>>,
                        stream |-> stream]]
    /\ payload = Payload(<<>>)
    /\ upstreamStatus = 200
    /\ pc = "dispatch"
    /\ sent \in ConcurrentBodies
    /\ upstream = BodyBytes(sent)
    /\ dec = <<>>
    /\ buffer = <<>>
    /\ fullContent = <<>>
    /\ out = <<>>
    /\ ctrl = "readable"
    /\ clientGone = FALSE
    /\ readFailed = FALSE
    /\ splitReads = FALSE
    /\ response = NoResponse
    /\ reading = 0
    /\ enqueueThrew = FALSE
    /\ \E st \in BOOLEAN, evs \in ConcurrentBodies :
          other = [NoOther EXCEPT !.pc = "dispatch", !.stream = st,
                                  !.sent = evs, !.upstream = BodyBytes(evs)]

NextConcurrent ==
    \/ Translate
    \/ OtherTranslate

SpecConcurrent == InitConcurrent /\ [][NextConcurrent]_vars

(***************************************************************************)
(* Properties of the Stream Translator, checked under SpecStream.          *)
(* The handlers that read the upstream body are the streaming handlers of  *)
(* both servers and the non-streaming handler of the first server.         *)
(***************************************************************************)
Range(f) == {f[i] : i \in DOMAIN f}
IsPrefix(a, b) == Len(a) <= Len(b) /\ SubSeq(b, 1, Len(a)) = a

KindOf(i) == UpstreamEvents[sent[i]].kind

\* what the backend put into the complete text-delta lines of a body: the
\* non-empty deltas, in the order written
RECURSIVE Carried(_)
Carried(evs) ==
    IF evs = <<>> THEN <<>>
    ELSE LET e == UpstreamEvents[Head(evs)] IN
         (IF e.kind = "text-delta" /\ e.delta # <<>>
          THEN <<StringValue(e.delta)>> ELSE <<>>) \o Carried(Tail(evs))

\* the units of the whole body handed over in one single read
OneReadUnits(skipDone) ==
    Units(CompleteLines(Decode(<<>>, BodyBytes(sent)).text), skipDone)

\* a streaming run that ended with the upstream's end-of-stream, the client
\* still connected
StreamedToEnd == pc = "done" /\ stream /\ ~readFailed /\ ~clientGone
\* a buffered run of the first server that ended with the end-of-stream
BufferedToEnd == pc = "done" /\ ~stream /\ server = 1 /\ ~readFailed

\* C1: however the body is split into reads, a run that reaches the end of
\* the body ends with the result of the run that gets the whole body in one
\* read: the same frames in streaming mode, the same message.content in
\* buffered mode.
C1_ChunkBoundaryIndependence ==
    /\ StreamedToEnd => out = Frames(OneReadUnits(TRUE)) \o <<DoneFrame>>
    /\ BufferedToEnd =>
          response = Respond(200, "chat.completion", Joined(OneReadUnits(FALSE)))

\* a streaming run over reads that ended inside lines, two chunks delivered
C1_Witness ==
    /\ StreamedToEnd
    /\ splitReads
    /\ Len(out) = 3

\* C2: in streaming mode the outbound stream is at every moment a prefix of
\* the chunks for the deltas the backend wrote, in the order written, and
\* after the end of the body it is exactly these chunks followed by one
\* terminator as the last item, and the stream is closed.
C2_StreamingChunksInOrder ==
    (stream /\ response.body = "stream" /\ ~clientGone) =>
        /\ pc = "read" => (IsPrefix(out, Frames(Carried(sent))) /\ ctrl = "readable")
        /\ StreamedToEnd =>
              (out = Frames(Carried(sent)) \o <<DoneFrame>> /\ ctrl = "closed")

\* two different deltas were carried, and the stream ended with the terminator
C2_Witness ==
    /\ StreamedToEnd
    /\ sent = <<1, 2>>
    /\ Len(out) = 3
    /\ out[3] = DoneFrame
    /\ ctrl = "closed"

\* C3 as claimed: a buffered request returns nothing before the end of the
\* body and then one chat.completion whose content is the concatenation of
\* the deltas the backend wrote.
C3_BufferedCompletion ==
    ~stream =>
        /\ pc # "done" => (response = NoResponse /\ out = <<>>)
        /\ (pc = "done" /\ ~readFailed) =>
              response = Respond(200, "chat.completion", Joined(Carried(sent)))

\* a [DONE] line comes before a text-delta line with a non-empty delta
DoneMidStream ==
    \E i, j \in 1..Len(sent) :
        /\ i < j
        /\ KindOf(i) = "done"
        /\ KindOf(j) = "text-delta"
        /\ UpstreamEvents[sent[j]].delta # <<>>

\* C4: when the body has a `data: [DONE]` line before later text-delta
\* lines, a run that is not cut short by a read failure ends only with the
\* whole body consumed, and the deltas of the later lines are emitted
\* (streaming) or appended (buffered) like all others.
C4_DoneLineDoesNotEnd ==
    DoneMidStream =>
        /\ (StreamedToEnd \/ BufferedToEnd) => upstream = <<>>
        /\ StreamedToEnd => out = Frames(Carried(sent)) \o <<DoneFrame>>
        /\ BufferedToEnd => response.content = Joined(Carried(sent))

\* the sentinel, then a delta: the delta came out, after reads that ended
\* inside lines
C4_Witness ==
    /\ StreamedToEnd
    /\ sent = <<5, 2>>
    /\ splitReads
    /\ out = <<ChunkFrame(StringValue(<<"l", EAcute, " ">>)), DoneFrame>>

\* the body holds only events of another type, lines that are not JSON,
\* sentinels and blank lines, and at least one of the first two
NoTextDelta ==
    /\ \A i \in 1..Len(sent) : KindOf(i) \in {"finish", "broken", "done", "blank"}
    /\ \E i \in 1..Len(sent) : KindOf(i) \in {"finish", "broken"}

\* C5: a body without any text-delta event never puts the translator into
\* an error state and yields no error response; the streaming run ends with
\* the terminator alone on a closed stream, the buffered run with a 200
\* chat.completion whose content is empty.
C5_NothingRecognized ==
    (NoTextDelta /\ ~readFailed /\ (stream \/ server = 1)) =>
        /\ ctrl # "errored"
        /\ response.status \in {0, 200}
        /\ fullContent = <<>>
        /\ (stream /\ ~clientGone) => out \in {<<>>, <<DoneFrame>>}
        /\ StreamedToEnd => (out = <<DoneFrame>> /\ ctrl = "closed")
        /\ BufferedToEnd => response = Respond(200, "chat.completion", <<>>)

\* a line that is not JSON and an event of another type, read to the end
C5_Witness ==
    /\ BufferedToEnd
    /\ sent = <<6, 4>>
    /\ response.status = 200

\* C10: the step in which a read of the upstream body fails in streaming
\* mode leaves the items already enqueued as they are, adds none (no chunk,
\* no terminator), puts a stream whose client is still there into the
\* errored state and ends the run; nothing changes after it.
C10_StreamingAbort ==
    [][(stream /\ readFailed') =>
          /\ out' = out
          /\ \A i \in 1..Len(out') : out'[i] # DoneFrame
          /\ ~clientGone => ctrl' = "errored"
          /\ pc' = "done"]_vars

\* a read failed after one chunk had been enqueued
C10_Witness ==
    /\ pc = "done"
    /\ stream
    /\ readFailed
    /\ ~clientGone
    /\ Len(out) = 1
    /\ ctrl = "errored"

(***************************************************************************)
(* Properties of the gateway as a whole, checked under Spec.               *)
(***************************************************************************)
\* C6: once the backend has answered with a non-success status, the
\* handler is at the status check or done, no read loop runs, nothing is or
\* was enqueued, no stream body is returned, and the answer is of the
\* server class: 502 "Upstream Error", or, in the first server, the 500 of
\* the outer catch when reading the backend's error text fails.
C6_UpstreamErrorNoStream ==
    (upstreamStatus # 0 /\ upstreamStatus # 200) =>
        /\ pc \in {"not-ok", "done"}
        /\ response.body # "stream"
        /\ out = <<>>
        /\ ctrl = "readable"
        /\ fullContent = <<>>
        /\ pc = "done" =>
              response \in {Respond(502, "Upstream Error", <<>>),
                            Respond(500, "Internal Server Error", <<>>)}
        /\ (pc = "done" /\ server = 2) => response.status = 502

\* a streaming request was answered 502 after the backend's 500
C6_Witness ==
    /\ pc = "done"
    /\ upstreamStatus = 500
    /\ stream
    /\ response = Respond(502, "Upstream Error", <<>>)

BearerOf(key) == Header(BearerPrefix \o key.value)
Presents(authHeader, key) ==
    authHeader = BearerOf(key) \/ authHeader = Header(key.value)

\* C7: with a secret configured, a request other than OPTIONS whose
\* Authorization header is neither `Bearer <secret>` nor the bare secret
\* never gets past the check: it is answered 401, no payload is built and
\* the backend is not called; a request with `Bearer <secret>` is never
\* answered 401; OPTIONS is answered by the preflight; without a secret no
\* request is answered 401.
C7_AuthenticationGate ==
    /\ (secret.set /\ req.method # "OPTIONS" /\ ~Presents(req.auth, secret)) =>
          /\ pc \in {"recv", "done"}
          /\ pc = "done" => response = Respond(401, "Invalid API Key", <<>>)
          /\ payload = NoPayload
          /\ upstreamStatus = 0
    /\ (secret.set /\ req.auth = BearerOf(secret)) => response.status # 401
    /\ req.method = "OPTIONS" =>
          (pc = "done" => response = Respond(200, "cors", <<>>))
    /\ ~secret.set => response.status # 401

\* a chat request with a bearer token that is not the secret was answered 401
C7_Witness ==
    /\ pc = "done"
    /\ secret = Secret(<<"s", "3">>)
    /\ req.auth = Header(BearerPrefix \o <<"n", "o">>)
    /\ req.method = "POST"
    /\ req.path = ChatPath
    /\ response.status = 401

\* C8: the payload posted to the backend has as many message entries as the
\* request has messages, and the i-th entry has the role of the i-th
\* message and one text part holding its content.
C8_MessagesPreserved ==
    payload # NoPayload =>
        /\ Len(payload.messages) = Len(req.body.messages)
        /\ \A i \in 1..Len(req.body.messages) :
              /\ payload.messages[i].role = req.body.messages[i].role
              /\ payload.messages[i].parts =
                    <<[type |-> "text", text |-> req.body.messages[i].content]>>

\* two different messages were translated and posted
C8_Witness ==
    /\ pc = "fetch"
    /\ Len(req.body.messages) = 2
    /\ req.body.messages[1] # req.body.messages[2]
    /\ Len(payload.messages) = 2

\* C9 as claimed: a chat request that passes the authentication check and
\* whose JSON body has no messages, or an empty list, ends with a payload
\* of zero message entries posted to the backend.
C9_MissingMessagesForwarded ==
    (/\ pc = "done"
     /\ req.method = "POST"
     /\ req.path = ChatPath
     /\ ~Rejects(secret, req.auth)
     /\ req.body.json
     /\ req.body.messages = <<>>) => payload = Payload(<<>>)

(***************************************************************************)
(* Failure, cancellation and loop discipline of the Stream Translator,     *)
(* checked under SpecStream.                                               *)
(***************************************************************************)
\* C11: in buffered mode nothing is returned while the body is being read,
\* and a run in which a read of the body failed ends with the 500
\* "Internal Server Error" response, which carries no content; it never
\* ends with a chat.completion, whatever had been accumulated.
C11_BufferedFailureAllOrNothing ==
    ~stream =>
        /\ pc = "read" => response = NoResponse
        /\ readFailed =>
              /\ pc = "done"
              /\ response = Respond(500, "Internal Server Error", <<>>)
              /\ response.body # "chat.completion"
              /\ out = <<>>

\* a read failed after a delta had been accumulated
C11_Witness ==
    /\ ~stream
    /\ readFailed
    /\ fullContent = <<"H", "i">>
    /\ response.status = 500

\* C12 as claimed: once a write to the outbound stream has failed because
\* the client is gone, the translator has left the read loop: no read of
\* the upstream body is outstanding and the run is over.
C12_CancellationStopsReading ==
    (stream /\ clientGone /\ enqueueThrew) => (reading = 0 /\ pc = "done")

(***************************************************************************)
(* Two requests in flight, checked under SpecConcurrent.                   *)
(***************************************************************************)
\* BodyBytes, from the table of the bytes of each event of the catalogue
EventBytesOf == [e \in 1..Len(UpstreamEvents) |-> EventBytes(UpstreamEvents[e])]

RECURSIVE BytesOf(_)
BytesOf(evs) ==
    IF evs = <<>> THEN <<>> ELSE EventBytesOf[Head(evs)] \o BytesOf(Tail(evs))

\* the bytes of the body `evs` that the reads have returned, `left` being
\* the bytes not yet returned
Got(evs, left) ==
    LET all == BytesOf(evs) IN SubSeq(all, 1, Len(all) - Len(left))

\* what a handler running alone holds after the bytes `got`: the decoder's
\* carried bytes, the retained text and the deltas recognized
Alone(got, skipDone) ==
    LET d == Decode(<<>>, got)
    IN [dec |-> d.pending,
        buffer |-> Retained(d.text),
        units |-> Units(CompleteLines(d.text), skipDone)]

\* the terminator, once a streaming run has reached the end of its body
Terminator(at, failed) ==
    IF at = "done" /\ ~failed THEN <<DoneFrame>> ELSE <<>>

\* C13: with the reads of two requests interleaved in any order, at every
\* moment the decoder state, the buffer and the output of each request
\* (the chunks enqueued, or the content accumulated and returned) are those
\* of a handler that got the same bytes of its own body and ran alone.
C13_RequestIsolation ==
    /\ LET mine == Alone(Got(sent, upstream), stream) IN
          /\ dec = mine.dec
          /\ buffer = mine.buffer
          /\ (stream /\ ~clientGone) =>
                out = Frames(mine.units) \o Terminator(pc, readFailed)
          /\ ~stream => fullContent = Joined(mine.units)
          /\ (~stream /\ server = 1 /\ pc = "done" /\ ~readFailed) =>
                response.content = Joined(mine.units)
    /\ LET theirs == Alone(Got(other.sent, other.upstream), other.stream) IN
          /\ other.dec = theirs.dec
          /\ other.buffer = theirs.buffer
          /\ other.stream =>
                other.out = Frames(theirs.units)
                               \o Terminator(other.pc, other.readFailed)
          /\ ~other.stream => other.fullContent = Joined(theirs.units)
          /\ (~other.stream /\ server = 1 /\ other.pc = "done"
                /\ ~other.readFailed) =>
                other.response.content = Joined(theirs.units)

\* both requests are in the middle of their bodies, each holding a part of
\* a line of its own, and the second has a byte of a character carried over
C13_Witness ==
    /\ pc = "read" /\ other.pc = "read"
    /\ stream /\ other.stream
    /\ sent = <<1, 2>> /\ other.sent = <<5, 2>>
    /\ buffer # <<>> /\ other.buffer # <<>>
    /\ buffer # other.buffer
    /\ other.dec # <<>>

\* the delta.content values of the chunks of an outbound stream, concatenated
RECURSIVE ChunkContents(_)
ChunkContents(queue) ==
    IF queue = <<>> THEN <<>>
    ELSE (IF Head(queue).frame = "chunk" THEN Head(queue).content.v ELSE <<>>)
            \o ChunkContents(Tail(queue))

\* C20: when the backend gives the same body to a streaming and to a
\* buffered request and both reach its end without a failed read (the
\* client of the streaming one connected), the contents of the chunks of
\* the one, concatenated, are the message.content of the other.
C20_ModeEquivalence ==
    (/\ sent = other.sent
     /\ pc = "done" /\ other.pc = "done"
     /\ ~readFailed /\ ~other.readFailed
     /\ ~clientGone
     /\ server = 1) =>
        /\ (stream /\ ~other.stream) =>
              /\ other.response.body = "chat.completion"
              /\ ChunkContents(out) = other.response.content
        /\ (~stream /\ other.stream) =>
              /\ response.body = "chat.completion"
              /\ ChunkContents(other.out) = response.content

\* the same body of two deltas went to a streaming and to a buffered
\* request: two chunks there, their concatenation here
C20_Witness ==
    /\ server = 1
    /\ stream /\ ~other.stream
    /\ sent = <<1, 2>> /\ other.sent = <<1, 2>>
    /\ pc = "done" /\ other.pc = "done"
    /\ ~readFailed /\ ~other.readFailed /\ ~clientGone
    /\ Len(out) = 3
    /\ other.response.content = <<"H", "i", "l", EAcute, " ">>

(***************************************************************************)
(* The lifecycle of a streaming run, checked under SpecLifecycle.          *)
(***************************************************************************)
\* C14: every streaming run ends; a run whose client stays connected ends
\* closed, with the whole body consumed, when no read failed, and errored
\* when a read failed; the end state is kept; and as long as no read has
\* failed the stream is not errored, whatever lines JSON.parse rejected.
C14_StreamingLifecycle ==
    /\ stream ~> (pc = "done")
    /\ [](stream /\ pc = "done" /\ ~clientGone =>
            \/ ~readFailed /\ ctrl = "closed" /\ upstream = <<>>
            \/ readFailed /\ ctrl = "errored")
    /\ [](stream /\ ~readFailed => ctrl # "errored")
    /\ [][pc = "done" => (pc' = "done" /\ ctrl' = ctrl /\ out' = out)]_vars

\* a line that is not JSON came before a delta: the delta was emitted and
\* the stream closed
C14_Witness ==
    /\ StreamedToEnd
    /\ sent = <<6, 1>>
    /\ ctrl = "closed"
    /\ out = <<ChunkFrame(StringValue(<<"H", "i">>)), DoneFrame>>

(***************************************************************************)
(* The read loop and the line filter, checked under SpecStream.            *)
(***************************************************************************)
\* the number of bytes of the first k events of the body
RECURSIVE EndOf(_)
EndOf(k) == IF k = 0 THEN 0 ELSE EndOf(k - 1) + Len(EventBytesOf[sent[k]])

\* the number of bytes the reads have returned
Returned == EndOf(Len(sent)) - Len(upstream)

\* the events whose line end the reads have returned
Arrived ==
    Cardinality({k \in 1..Len(sent) : KindOf(k) # "cut" /\ EndOf(k) <= Returned})

\* C15: at most one read of the upstream body is outstanding, and one is
\* exactly while the handler is in its loop; whenever a read is outstanding
\* every complete line of the bytes returned by the earlier reads has been
\* processed: no line end is left in the buffer, and there are as many
\* chunks in the outbound stream (streaming, client connected), or as much
\* text accumulated (buffered), as the lines returned so far carry.
C15_SequentialReadLoop ==
    /\ reading \in {0, 1}
    /\ reading = 1 <=> pc = "read"
    /\ reading = 1 =>
          LET carried == Carried(SubSeq(sent, 1, Arrived))
          IN /\ \A i \in 1..Len(buffer) : buffer[i] # NL
             /\ (stream /\ ~clientGone) => Len(out) = Len(carried)
             /\ ~stream => Len(fullContent) = Len(Joined(carried))

\* the first line's delta has been appended and the read for the rest of
\* the body is outstanding
C15_Witness ==
    /\ reading = 1
    /\ ~stream
    /\ sent = <<1, 2>>
    /\ fullContent = <<"H", "i">>
    /\ upstream # <<>>

\* the bytes returned after the last line end
Partial == SubSeq(BytesOf(sent), EndOf(Arrived) + 1, Returned)

\* C16: at every moment of a run the output holds the deltas of exactly the
\* events whose terminating newline has been returned by a read, each once
\* and in order: chunks in streaming mode (client connected), appended text
\* in buffered mode; the text of the bytes returned after the last newline
\* is in the buffer (its last incomplete character in the decoder) and has
\* produced nothing.
C16_IncompleteLineWaits ==
    (pc = "read" \/ (pc = "done" /\ readFailed)) =>
        LET unfinished == Decode(<<>>, Partial)
            finished == Carried(SubSeq(sent, 1, Arrived))
        IN /\ buffer = unfinished.text
           /\ dec = unfinished.pending
           /\ (stream /\ ~clientGone) => out = Frames(finished)
           /\ ~stream => fullContent = Joined(finished)

\* the first line came in over several reads and gave its one chunk; a part
\* of the second line is in the buffer and has given nothing
C16_Witness ==
    /\ pc = "read"
    /\ stream /\ ~clientGone
    /\ sent = <<1, 1>>
    /\ splitReads
    /\ Arrived = 1
    /\ Len(buffer) > Len(DataPrefix)
    /\ out = <<ChunkFrame(StringValue(<<"H", "i">>))>>

(***************************************************************************)
(* The line filter, checked under SpecFilter: the body is one line of      *)
(* FilterLines and its line end, split into reads in every way.            *)
(***************************************************************************)
\* the line has the prefix `data: `, what follows it, trimmed, is a JSON
\* text, and the value has the type text-delta and a delta that is a string
\* of at least one character
Recognized(line) ==
    /\ StartsWith(line, DataPrefix)
    /\ LET r == JSONParse(Trim(Slice(line, 6))) IN
          /\ r.ok
          /\ Get(r.value, TypeKey) = StringValue(TextDelta)
          /\ Get(r.value, DeltaKey).t = "string"
          /\ Len(Get(r.value, DeltaKey).v) > 0

DeltaOf(line) == Get(JSONParse(Trim(Slice(line, 6))).value, DeltaKey)

\* C17: in the step in which the line end of a line is returned (the
\* outbound stream being readable in streaming mode), a recognized line
\* adds one chunk with its delta to the outbound stream, or its delta to the
\* accumulated content; every other line adds nothing and leaves the
\* outbound stream, its state, the accumulated content, the response and
\* the position of the handler as they are.  The buffer is empty after it.
C17_LineFilter ==
    [][(pc = "read" /\ upstream # <<>> /\ upstream' = <<>>
            /\ (stream => ctrl = "readable")) =>
          LET line == buffer
                        \o Decode(dec, SubSeq(upstream, 1, Len(upstream) - 1)).text
          IN /\ buffer' = <<>>
             /\ pc' = pc /\ ctrl' = ctrl /\ response' = response
             /\ (Recognized(line) /\ stream) =>
                   (out' = Append(out, ChunkFrame(DeltaOf(line)))
                      /\ fullContent' = fullContent)
             /\ (Recognized(line) /\ ~stream) =>
                   (fullContent' = fullContent \o DeltaOf(line).v /\ out' = out)
             /\ ~Recognized(line) => (out' = out /\ fullContent' = fullContent)]_vars

\* a line was recognized after reads that ended inside it: its chunk is the
\* only item of the stream
C17_Witness ==
    /\ pc = "read"
    /\ stream /\ ~clientGone
    /\ sent = <<>>
    /\ upstream = <<>>
    /\ splitReads
    /\ out = <<ChunkFrame(StringValue(<<"H", "i">>))>>

(***************************************************************************)
(* The request body, checked under Spec.                                   *)
(***************************************************************************)
\* C18: a POST to the chat endpoint that passes the authentication check
\* and whose body is not JSON is answered 500 "Internal Server Error"; at
\* no moment of its handling is a payload built, the backend called, a
\* read issued or a stream body started.
C18_UnparseableBody ==
    (/\ req.method = "POST"
     /\ req.path = ChatPath
     /\ ~Rejects(secret, req.auth)
     /\ ~req.body.json) =>
        /\ pc \in {"recv", "route", "body", "done"}
        /\ pc = "done" => response = Respond(500, "Internal Server Error", <<>>)
        /\ pc # "done" => response = NoResponse
        /\ payload = NoPayload
        /\ upstreamStatus = 0
        /\ reading = 0
        /\ out = <<>>
        /\ ctrl = "readable"

\* with a secret configured, an authorized request whose body is not JSON
\* was answered 500
C18_Witness ==
    /\ pc = "done"
    /\ secret = Secret(<<"s", "3">>)
    /\ req.auth = Header(BearerPrefix \o <<"s", "3">>)
    /\ req.method = "POST"
    /\ req.path = ChatPath
    /\ ~req.body.json
    /\ response.status = 500

(***************************************************************************)
(* The end of the body, checked under SpecStream.                          *)
(***************************************************************************)
\* the text of the line that the body ends with, its line end missing
CutLine == EventText(UpstreamEvents[CutEvent])
CutDelta == UpstreamEvents[CutEvent].delta

\* C19: when the body ends with a well-formed text-delta line that has no
\* line end, the delta of that line is at no moment in the outbound stream
\* or in the accumulated content; a run that reaches the end of the body
\* ends with the result for the body without that line, and the text of the
\* line is still in the buffer, which is dropped with the handler.
C19_UnterminatedFinalLine ==
    (sent # <<>> /\ sent[Len(sent)] = CutEvent) =>
        LET before == SubSeq(sent, 1, Len(sent) - 1) IN
        /\ \A i \in 1..Len(out) : out[i] # ChunkFrame(StringValue(CutDelta))
        /\ \A i \in 1..Len(fullContent) : fullContent[i] \notin Range(CutDelta)
        /\ StreamedToEnd =>
              (out = Frames(Carried(before)) \o <<DoneFrame>> /\ buffer = CutLine)
        /\ BufferedToEnd =>
              /\ response = Respond(200, "chat.completion", Joined(Carried(before)))
              /\ buffer = CutLine

\* a complete line and a line without line end: one chunk, the terminator,
\* and the second line left in the buffer
C19_Witness ==
    /\ StreamedToEnd
    /\ sent = <<1, CutEvent>>
    /\ splitReads
    /\ out = <<ChunkFrame(StringValue(<<"H", "i">>)), DoneFrame>>
    /\ buffer = CutLine

====
